---- MODULE Spec2Model ----
(***************************************************************************)
(* Model of sort_vs_settings.py: the recursive reordering of the children  *)
(* of an ElementTree (sort_children_recursively), the indentation pass     *)
(* (format_xml_output / indent_xml), the serialisation, and the command    *)
(* line driver (main, process_settings_file).                              *)
(*                                                                         *)
(* An ElementTree is a heap of Element objects: a function from object     *)
(* identities 1..n (1 is the root) to records                              *)
(*   [tag, attrib, text, tail, children]                                   *)
(* where children is the list of the identities of the child Elements.     *)
(* Python strings that the code compares or tests for whitespace (the      *)
(* attribute values, text, tail) are sequences of code points, so that the *)
(* ordinal comparison of list.sort and str.strip are computed, not         *)
(* assumed.  A text or tail of None is the empty sequence: every use in    *)
(* the code (`not elem.text`, the serialiser) treats None and "" alike.    *)
(***************************************************************************)
EXTENDS Naturals, Sequences, FiniteSets, TLC

VARIABLES
    elem,      \* the tree being processed: the heap of Elements
    input,     \* the tree as parsed (what the run was given)
    other,     \* the export of the same configuration processed before this one
    sort_key,  \* the value sort_key_for_element returned
    first,     \* the tree as it was after the first sort_children_recursively
    pc,        \* position of the run
    xml_output,\* the text format_xml_output returned
    outputs,   \* the texts written so far, one per processed export
    argv,      \* the command line and what the file system holds for it
    fault,     \* what failed inside process_settings_file: the call and its exception
    stderr,    \* the lines printed on the error stream
    status     \* the exit status of the process ("running" until it exits)

vars == <<elem, input, other, sort_key, first, pc, xml_output, outputs, argv, fault, stderr, status>>

(* Largest number of Elements of a document. *)
MaxNodes == 5

----------------------------------------------------------------------------
(* Strings as sequences of code points *)

NL == <<10>>
TAB == <<9>>
strEmpty == <<>>
strA == <<65>>
strB == <<66>>
strX == <<120>>
strY == <<121>>
strBlank == <<32>>
strIndent == <<10, 32, 32>>

(* str.isspace for one code point (the ASCII whitespace of Python) *)
IsSpace(c) == c \in {9, 10, 11, 12, 13, 28, 29, 30, 31, 32}

(* s.strip(): without its leading and trailing whitespace *)
RECURSIVE lstrip(_)
lstrip(s) ==
    IF s = <<>> THEN <<>>
    ELSE IF IsSpace(Head(s)) THEN lstrip(Tail(s)) ELSE s

RECURSIVE rstrip(_)
rstrip(s) ==
    IF s = <<>> THEN <<>>
    ELSE IF IsSpace(s[Len(s)]) THEN rstrip(SubSeq(s, 1, Len(s) - 1)) ELSE s

strip(s) == rstrip(lstrip(s))

(* a < b for Python strings: ordinal, code point by code point *)
RECURSIVE StrLess(_, _)
StrLess(a, b) ==
    IF b = <<>> THEN FALSE
    ELSE IF a = <<>> THEN TRUE
    ELSE IF Head(a) # Head(b) THEN Head(a) < Head(b)
    ELSE StrLess(Tail(a), Tail(b))

(* "\t" * level *)
RECURSIVE Tabs(_)
Tabs(level) == IF level = 0 THEN <<>> ELSE TAB \o Tabs(level - 1)

----------------------------------------------------------------------------
(* Element *)

(* element.get(key, default) *)
Get(h, e, key, default) ==
    IF key \in DOMAIN h[e].attrib THEN h[e].attrib[key] ELSE default

(* bool(element.get(key)): the attribute is present and not empty *)
Truthy(h, e, key) == key \in DOMAIN h[e].attrib /\ h[e].attrib[key] # <<>>

(* element.remove(child): the first occurrence of the object is taken out *)
RECURSIVE RemoveFirst(_, _)
RemoveFirst(s, c) ==
    IF s = <<>> THEN <<>>
    ELSE IF Head(s) = c THEN Tail(s)
    ELSE <<Head(s)>> \o RemoveFirst(Tail(s), c)

remove(h, e, c) == [h EXCEPT ![e].children = RemoveFirst(@, c)]

(* element.append(child) *)
append(h, e, c) == [h EXCEPT ![e].children = Append(@, c)]

----------------------------------------------------------------------------
(* sort_key_for_element *)

(* mutant: an attribute that is empty counts as absent *)
sort_key_for_element_Truthy(h, e) ==
    IF Truthy(h, e, "name") THEN h[e].attrib["name"]
    ELSE IF Truthy(h, e, "GUID") THEN h[e].attrib["GUID"]
    ELSE <<>>

sort_key_for_element(h, e) == Get(h, e, "name", Get(h, e, "GUID", <<>>))

----------------------------------------------------------------------------
(* sort_children_recursively *)

sortable_tags ==
    {"PropertyValue", "ToolsOptionsCategory", "ToolsOptionsSubCategory", "Category"}

(* the test of line 42 *)
IsSortable(h, c) ==
    h[c].tag \in sortable_tags /\ (Truthy(h, c, "name") \/ Truthy(h, c, "GUID"))

(* the partition loop of lines 41-45 *)
SortableChildren(h, children_list) ==
    SelectSeq(children_list, LAMBDA c : IsSortable(h, c))

OtherChildren(h, children_list) ==
    SelectSeq(children_list, LAMBDA c : ~IsSortable(h, c))

(* mutant: an item goes before the items of equal key (not stable) *)
RECURSIVE InsertSorted_TiesFirst(_, _, _)
InsertSorted_TiesFirst(h, r, x) ==
    IF r = <<>> THEN <<x>>
    ELSE IF ~StrLess(sort_key_for_element(h, r[Len(r)]), sort_key_for_element(h, x))
         THEN Append(InsertSorted_TiesFirst(h, SubSeq(r, 1, Len(r) - 1), x), r[Len(r)])
         ELSE Append(r, x)

(* mutant: the list is left as it is *)
ListSort_Unsorted(h, s) == s

(* list.sort(key=sort_key_for_element): a stable sort comparing keys with <. *)
(* Each item in turn is inserted after the last item whose key is not        *)
(* greater than its own.                                                     *)
RECURSIVE InsertSorted(_, _, _)
InsertSorted(h, r, x) ==
    IF r = <<>> THEN <<x>>
    ELSE IF StrLess(sort_key_for_element(h, x), sort_key_for_element(h, r[Len(r)]))
         THEN Append(InsertSorted(h, SubSeq(r, 1, Len(r) - 1), x), r[Len(r)])
         ELSE Append(r, x)

RECURSIVE ListSort(_, _)
ListSort(h, s) ==
    IF s = <<>> THEN <<>>
    ELSE InsertSorted(h, ListSort(h, SubSeq(s, 1, Len(s) - 1)), s[Len(s)])

(* for child in children_list: element.remove(child) *)
RECURSIVE RemoveAll(_, _, _)
RemoveAll(h, element, s) ==
    IF s = <<>> THEN h ELSE RemoveAll(remove(h, element, Head(s)), element, Tail(s))

(* for child in s: element.append(child) *)
RECURSIVE AppendAll(_, _, _)
AppendAll(h, element, s) ==
    IF s = <<>> THEN h ELSE AppendAll(append(h, element, Head(s)), element, Tail(s))

(* mutant: the sorted children are put back first *)
Reorder_SortedFirst(h, element) ==
    LET children_list == h[element].children
        sortable_children == ListSort(h, SortableChildren(h, children_list))
        other_children == OtherChildren(h, children_list)
        h1 == RemoveAll(h, element, children_list)
        h2 == AppendAll(h1, element, sortable_children)
    IN  AppendAll(h2, element, other_children)

(* mutant: the other children are not put back *)
Reorder_LosesOthers(h, element) ==
    LET children_list == h[element].children
        sortable_children == ListSort(h, SortableChildren(h, children_list))
        h1 == RemoveAll(h, element, children_list)
    IN  AppendAll(h1, element, sortable_children)

(* lines 36-60: the children of one element are taken out and put back *)
Reorder(h, element) ==
    LET children_list == h[element].children
        sortable_children == ListSort(h, SortableChildren(h, children_list))
        other_children == OtherChildren(h, children_list)
        h1 == RemoveAll(h, element, children_list)
        h2 == AppendAll(h1, element, other_children)
    IN  AppendAll(h2, element, sortable_children)

(* lines 62-64: for child in list(element): sort_children_recursively(child) *)
RECURSIVE sort_children_recursively(_, _)
RECURSIVE SortEach(_, _)
(* mutant: only the sortable children are recursed into *)
RECURSIVE SortEach_SortableOnly(_, _)
SortEach_SortableOnly(h, s) ==
    IF s = <<>> THEN h
    ELSE IF IsSortable(h, Head(s))
         THEN SortEach_SortableOnly(sort_children_recursively(h, Head(s)), Tail(s))
         ELSE SortEach_SortableOnly(h, Tail(s))

SortEach(h, s) ==
    IF s = <<>> THEN h
    ELSE SortEach(sort_children_recursively(h, Head(s)), Tail(s))

sort_children_recursively(h, element) ==
    LET h3 == Reorder(h, element)
    IN  SortEach(h3, h3[element].children)

----------------------------------------------------------------------------
(* format_xml_output *)

(* not s or not s.strip() *)
Blank(s) == s = <<>> \/ strip(s) = <<>>

RECURSIVE indent_xml(_, _, _)
RECURSIVE IndentEach(_, _, _)
(* line 79-80: for child in elem: indent_xml(child, level + 1) *)
IndentEach(h, s, level) ==
    IF s = <<>> THEN h
    ELSE IndentEach(indent_xml(h, Head(s), level), Tail(s), level)

(* mutant: the tail of the last child is set whatever it holds *)
indent_xml_LastTailAlways(h, e, level) ==
    LET indent_str == Tabs(level)
    IN  IF Len(h[e].children) # 0
        THEN LET h1 == IF Blank(h[e].text)
                       THEN [h EXCEPT ![e].text = NL \o indent_str \o TAB]
                       ELSE h
                 h2 == IF Blank(h1[e].tail)
                       THEN [h1 EXCEPT ![e].tail = NL \o indent_str]
                       ELSE h1
                 h3 == IndentEach(h2, h2[e].children, level + 1)
                 child == h3[e].children[Len(h3[e].children)]
             IN  [h3 EXCEPT ![child].tail = NL \o indent_str]
        ELSE IF level # 0 /\ Blank(h[e].tail)
             THEN [h EXCEPT ![e].tail = NL \o indent_str]
             ELSE h

(* mutant: the tail of the last child is not set to the parent's level *)
indent_xml_NoClosingTail(h, e, level) ==
    LET indent_str == Tabs(level)
    IN  IF Len(h[e].children) # 0
        THEN LET h1 == IF Blank(h[e].text)
                       THEN [h EXCEPT ![e].text = NL \o indent_str \o TAB]
                       ELSE h
                 h2 == IF Blank(h1[e].tail)
                       THEN [h1 EXCEPT ![e].tail = NL \o indent_str]
                       ELSE h1
             IN  IndentEach(h2, h2[e].children, level + 1)
        ELSE IF level # 0 /\ Blank(h[e].tail)
             THEN [h EXCEPT ![e].tail = NL \o indent_str]
             ELSE h

indent_xml(h, e, level) ==
    LET indent_str == Tabs(level)
    IN  IF Len(h[e].children) # 0
        THEN LET h1 == IF Blank(h[e].text)
                       THEN [h EXCEPT ![e].text = NL \o indent_str \o TAB]
                       ELSE h
                 h2 == IF Blank(h1[e].tail)
                       THEN [h1 EXCEPT ![e].tail = NL \o indent_str]
                       ELSE h1
                 h3 == IndentEach(h2, h2[e].children, level + 1)
                 \* after the loop `child` is the last child of elem
                 child == h3[e].children[Len(h3[e].children)]
             IN  IF Blank(h3[child].tail)
                 THEN [h3 EXCEPT ![child].tail = NL \o indent_str]
                 ELSE h3
        ELSE IF level # 0 /\ Blank(h[e].tail)
             THEN [h EXCEPT ![e].tail = NL \o indent_str]
             ELSE h

(* ET.tostring(root, encoding='unicode'): no declaration; for each element  *)
(* the start tag with its attributes, the text, the children, the end tag   *)
(* and the tail; an element with no text and no child is written <tag />.   *)
Token(kind, tag, attrib, chars) ==
    [kind |-> kind, tag |-> tag, attrib |-> attrib, chars |-> chars]

NoAttrib == [k \in {} |-> <<>>]

RECURSIVE tostring(_, _)
RECURSIVE TostringEach(_, _)
TostringEach(h, s) ==
    IF s = <<>> THEN <<>>
    ELSE tostring(h, Head(s)) \o TostringEach(h, Tail(s))

tostring(h, e) ==
    ( IF h[e].text # <<>> \/ Len(h[e].children) # 0
      THEN <<Token("start", h[e].tag, h[e].attrib, <<>>),
             Token("chars", "", NoAttrib, h[e].text)>>
           \o TostringEach(h, h[e].children)
           \o <<Token("end", h[e].tag, NoAttrib, <<>>)>>
      ELSE <<Token("empty", h[e].tag, h[e].attrib, <<>>)>> )
    \o <<Token("chars", "", NoAttrib, h[e].tail)>>

(* The tree after format_xml_output, and the text it returns *)
format_xml_tree(h) == indent_xml(h, 1, 0)

format_xml_output(h) == tostring(format_xml_tree(h), 1)

----------------------------------------------------------------------------
(* The documents ET.parse can return, up to MaxNodes elements.  The elements *)
(* are numbered in document order; parent[i] is the element that holds i.    *)

RECURSIVE AncestorsOrSelf(_, _)
AncestorsOrSelf(parent, i) ==
    IF i = 1 THEN {1} ELSE {i} \cup AncestorsOrSelf(parent, parent[i])

(* the shapes of a document of n elements: in document order an element is  *)
(* a child of the element before it or of one of that element's ancestors   *)
Shapes(n) ==
    { parent \in [2..n -> 1..n] :
        \A i \in 2..n : parent[i] < i /\ parent[i] \in AncestorsOrSelf(parent, i - 1) }

RECURSIVE Ascending(_)
Ascending(S) ==
    IF S = {} THEN <<>>
    ELSE LET m == CHOOSE x \in S : \A y \in S : x <= y
         IN  <<m>> \o Ascending(S \ {m})

Element(kind, children) ==
    [tag |-> kind.tag, attrib |-> kind.attrib, text |-> kind.text,
     tail |-> kind.tail, children |-> children]

MakeTree(n, parent, root, kinds) ==
    [e \in 1..n |->
        Element(IF e = 1 THEN root ELSE kinds[e], Ascending({i \in 2..n : parent[i] = e}))]

(* t is a document of at most MaxNodes elements, its root drawn from        *)
(* RootKinds and its other elements from Kinds                              *)
IsParsed(t, RootKinds, Kinds) ==
    \E n \in 1..MaxNodes : \E parent \in Shapes(n) :
        \E root \in RootKinds : \E kinds \in [2..n -> Kinds] :
            t = MakeTree(n, parent, root, kinds)

Kind(tag, attrib, text, tail) ==
    [tag |-> tag, attrib |-> attrib, text |-> text, tail |-> tail]

(* Elements that exercise the reordering: tags in and outside the sortable  *)
(* set, name and GUID absent, empty and set, equal and different keys.      *)
SortRootKinds == { Kind("UserSettings", NoAttrib, <<>>, <<>>) }

SortKinds ==
    { Kind("Other", "name" :> strA, <<>>, <<>>),
      Kind("PropertyValue", "name" :> strEmpty, <<>>, <<>>),
      Kind("Category", ("name" :> strB) @@ ("GUID" :> strA), <<>>, <<>>),
      Kind("Category", "GUID" :> strA, <<>>, <<>>),
      Kind("ToolsOptionsCategory", "name" :> strA, strX, strY),
      Kind("Category", ("name" :> strEmpty) @@ ("GUID" :> strA), <<>>, strBlank) }

(* Elements that exercise the indentation: text and tail absent,            *)
(* whitespace only, and with content.                                       *)
FormatRootKinds ==
    { Kind("UserSettings", NoAttrib, <<>>, <<>>),
      Kind("UserSettings", NoAttrib, strX, strY) }

FormatKinds ==
    { Kind("Other", NoAttrib, <<>>, <<>>),
      Kind("Other", NoAttrib, strBlank, strIndent),
      Kind("Other", NoAttrib, strX, <<>>),
      Kind("Other", NoAttrib, <<>>, strY),
      Kind("Category", "name" :> strA, strX, strY) }

(* Elements of two exports of one configuration: not eligible, two eligible *)
(* elements with the same key and different content, a greater key          *)
CanonKinds ==
    { Kind("Other", NoAttrib, <<>>, <<>>),
      Kind("Category", "GUID" :> strA, <<>>, <<>>),
      Kind("ToolsOptionsCategory", "name" :> strA, strX, strBlank),
      Kind("Category", "name" :> strB, <<>>, strY) }

(* the attributes of an element: name and GUID each absent, empty, or set   *)
AttribValues == {strEmpty, strA, strB}

KeyAttribs ==
    UNION { [D -> AttribValues] : D \in SUBSET {"name", "GUID"} }

NoTree == <<>>

(* what failed inside process_settings_file: the call and its exception *)
Fault(call, exception) == [call |-> call, exception |-> exception]

NoFault == Fault("none", "")

----------------------------------------------------------------------------
(* The steps of a run on a parsed document (lines 106-113) *)

(* line 106; a second call models normalising an already normalised tree *)
Sort ==
    /\ pc \in {"parsed", "sorted"}
    /\ elem' = sort_children_recursively(elem, 1)
    /\ first' = IF pc = "parsed" THEN elem' ELSE first
    /\ pc' = IF pc = "parsed" THEN "sorted" ELSE "resorted"
    /\ UNCHANGED <<input, other, sort_key, xml_output, outputs, argv, fault, stderr, status>>

(* line 109 *)
Format ==
    /\ pc = "sorted"
    /\ elem' = format_xml_tree(elem)
    /\ xml_output' = format_xml_output(elem)
    /\ pc' = "formatted"
    /\ UNCHANGED <<input, other, sort_key, first, outputs, argv, fault, stderr, status>>

(* lines 112-113 *)
Write ==
    /\ pc = "formatted"
    /\ outputs' = Append(outputs, xml_output)
    /\ pc' = "written"
    /\ UNCHANGED <<elem, input, other, sort_key, first, xml_output, argv, fault, stderr, status>>

(* the orders of the list s that keep the children that are not eligible    *)
(* in their order: what another export of the same configuration may hold   *)
RECURSIVE Perms(_)
Perms(s) ==
    IF s = <<>> THEN {<<>>}
    ELSE UNION { { <<s[i]>> \o p :
                     p \in Perms(SubSeq(s, 1, i - 1) \o SubSeq(s, i + 1, Len(s))) }
                 : i \in DOMAIN s }

ChildOrders(h, e) ==
    { s \in Perms(h[e].children) :
        OtherChildren(h, s) = OtherChildren(h, h[e].children) }

RECURSIVE ReorderingsUpTo(_, _)
ReorderingsUpTo(h, n) ==
    IF n = 0 THEN {h}
    ELSE { [g EXCEPT ![n].children = s] :
             g \in ReorderingsUpTo(h, n - 1), s \in ChildOrders(h, n) }

Reorderings(h) == ReorderingsUpTo(h, Len(h))

(* a second export of the same configuration is processed: it differs from  *)
(* the first only in the order of the sortable children                     *)
Reexport ==
    /\ pc = "written"
    /\ Len(outputs) < 2
    /\ elem' \in Reorderings(input)
    /\ input' = elem'
    /\ other' = input
    /\ first' = <<>>
    /\ xml_output' = <<>>
    /\ pc' = "parsed"
    /\ UNCHANGED <<sort_key, outputs, argv, fault, stderr, status>>

(* line 48: the key function of the sort, applied to one element *)
SortKey ==
    /\ pc = "parsed"
    /\ sort_key' = sort_key_for_element(elem, 1)
    /\ pc' = "keyed"
    /\ UNCHANGED <<elem, input, other, first, xml_output, outputs, argv, fault, stderr, status>>

InitTree(RootKinds, Kinds) ==
    /\ IsParsed(elem, RootKinds, Kinds)
    /\ input = elem
    /\ other = NoTree
    /\ sort_key = <<>>
    /\ first = NoTree
    /\ pc = "parsed"
    /\ xml_output = <<>>
    /\ outputs = <<>>
    /\ argv = <<>>
    /\ fault = NoFault
    /\ stderr = <<>>
    /\ status = "running"

InitSort == InitTree(SortRootKinds, SortKinds)

InitFormat == InitTree(FormatRootKinds, FormatKinds)

InitCanon == InitTree(SortRootKinds, CanonKinds)

(* one element, every combination of name and GUID absent, empty and set *)
InitKey ==
    /\ \E tag \in sortable_tags \cup {"Other"} :
       \E attrib \in KeyAttribs :
           elem = [e \in {1} |-> Element(Kind(tag, attrib, <<>>, <<>>), <<>>)]
    /\ input = elem
    /\ other = NoTree
    /\ sort_key = <<>>
    /\ first = NoTree
    /\ pc = "parsed"
    /\ xml_output = <<>>
    /\ outputs = <<>>
    /\ argv = <<>>
    /\ fault = NoFault
    /\ stderr = <<>>
    /\ status = "running"

----------------------------------------------------------------------------
(* main and process_settings_file.  A path is what the code asks of it:     *)
(*   input:  text  "blank" (empty once stripped) or "path",                 *)
(*           ext   it ends with .vssettings,  isfile  os.path.isfile        *)
(*   output: text  "empty", "blank" (only whitespace) or "path",            *)
(*           dir   the directory part: "none", "exists" or "missing",       *)
(*           ext   the file name ends with .vssettings                      *)

NoInput == [text |-> "blank", ext |-> FALSE, isfile |-> FALSE]

InputPaths ==
    {NoInput} \cup [text : {"path"}, ext : BOOLEAN, isfile : BOOLEAN]

NoOutput == [text |-> "empty", dir |-> "none", ext |-> FALSE]

OutputPaths ==
    {NoOutput, [text |-> "blank", dir |-> "none", ext |-> FALSE]}
    \cup [text : {"path"}, dir : {"none", "exists", "missing"}, ext : BOOLEAN]

(* the command lines: the positional argument and the -o flag, each given   *)
(* or left out                                                              *)
CommandLines ==
    { a \in [input_given : BOOLEAN, input_file : InputPaths,
             output_given : BOOLEAN, output : OutputPaths] :
        /\ ~a.input_given => a.input_file = NoInput
        /\ ~a.output_given => a.output = NoOutput }

(* one line on the error stream: the message and the exception text in it *)
Line(text, detail) == [text |-> text, detail |-> detail]

(* print(..., file=sys.stderr); sys.exit(1) *)
Fail(line) ==
    /\ stderr' = Append(stderr, line)
    /\ status' = 1
    /\ pc' = "exited"

(* lines 130-143: parser.parse_args().  A missing required argument makes   *)
(* argparse print the usage and an error line and exit with status 2.       *)
ParseArgs ==
    /\ pc = "main"
    /\ IF argv.input_given /\ argv.output_given
       THEN /\ pc' = "check_input"
            /\ UNCHANGED <<stderr, status>>
       ELSE /\ stderr' = stderr \o <<Line("usage: sort_vs_settings.py [-h] -o OUTPUT input_file", ""),
                                     Line("error: the following arguments are required", "")>>
            /\ status' = 2
            /\ pc' = "exited"
    /\ UNCHANGED <<elem, input, other, sort_key, first, xml_output, outputs, argv, fault>>

(* lines 145-163 *)
CheckInput ==
    /\ pc = "check_input"
    /\ IF argv.input_file.text = "blank"
       THEN Fail(Line("Error: Input file must be specified", ""))
       ELSE IF ~argv.input_file.ext
       THEN Fail(Line("Error: Input file must be a .vssettings file", ""))
       ELSE IF ~argv.input_file.isfile
       THEN Fail(Line("Error: Input file does not exist", ""))
       ELSE /\ pc' = "check_output"
            /\ UNCHANGED <<stderr, status>>
    /\ UNCHANGED <<elem, input, other, sort_key, first, xml_output, outputs, argv, fault>>

(* lines 169-195 *)
CheckOutput ==
    /\ pc = "check_output"
    /\ IF argv.output.text = "empty"
       THEN Fail(Line("Error: Output file must be specified", ""))
       ELSE IF argv.output.text = "blank"
       THEN Fail(Line("Error: Output file must be specified", ""))
       ELSE IF argv.output.dir = "missing"
       THEN Fail(Line("Error: Output directory does not exist", ""))
       ELSE IF argv.output.ext
       THEN Fail(Line("Error: Output file should not have a .vssettings extension", ""))
       ELSE /\ pc' = "process"
            /\ UNCHANGED <<stderr, status>>
    /\ UNCHANGED <<elem, input, other, sort_key, first, xml_output, outputs, argv, fault>>

(* the exceptions ET.parse, open and f.write can raise *)
ParseErrors == {"ParseError", "FileNotFoundError", "PermissionError"}

OpenErrors == {"FileNotFoundError", "PermissionError", "IsADirectoryError"}

WriteErrors == {"OSError"}

(* lines 117-125: the except clauses, in their order *)
Report(exception) ==
    IF exception = "ParseError"
    THEN Line("Error parsing XML file: {e}", exception)
    ELSE IF exception = "FileNotFoundError"
    THEN Line("Error: Input file not found", "")
    ELSE Line("Unexpected error: {e}", exception)

(* lines 99-125 with ET.parse raising *)
ProcessParseFails ==
    /\ pc = "process"
    /\ \E exception \in ParseErrors :
          /\ fault' = Fault("parse", exception)
          /\ Fail(Report(exception))
    /\ UNCHANGED <<elem, input, other, sort_key, first, xml_output, outputs, argv>>

(* lines 99-125 with open or f.write raising: the document was parsed,     *)
(* sorted and formatted, and nothing of it is kept                          *)
ProcessOutputFails ==
    /\ pc = "process"
    /\ \E f \in {Fault("open", x) : x \in OpenErrors}
              \cup {Fault("write", x) : x \in WriteErrors} :
          /\ fault' = f
          /\ Fail(Report(f.exception))
    /\ UNCHANGED <<elem, input, other, sort_key, first, xml_output, outputs, argv>>

(* lines 99-115 and the return of main: parse, sort, format, write *)
ProcessSucceeds ==
    /\ pc = "process"
    /\ IsParsed(input', SortRootKinds, CanonKinds)
    /\ first' = sort_children_recursively(input', 1)
    /\ elem' = format_xml_tree(first')
    /\ xml_output' = format_xml_output(first')
    /\ outputs' = Append(outputs, xml_output')
    /\ status' = 0
    /\ pc' = "exited"
    /\ UNCHANGED <<other, sort_key, argv, fault, stderr>>

Init ==
    /\ argv \in CommandLines
    /\ pc = "main"
    /\ elem = NoTree
    /\ input = NoTree
    /\ other = NoTree
    /\ sort_key = <<>>
    /\ first = NoTree
    /\ xml_output = <<>>
    /\ outputs = <<>>
    /\ fault = NoFault
    /\ stderr = <<>>
    /\ status = "running"

Next ==
    \/ ParseArgs
    \/ CheckInput
    \/ CheckOutput
    \/ ProcessParseFails
    \/ ProcessOutputFails
    \/ ProcessSucceeds

Spec == Init /\ [][Next]_vars

NextTree == Sort \/ Format

NextCanon == Sort \/ Format \/ Write \/ Reexport

NextKey == SortKey

SpecSort == InitSort /\ [][NextTree]_vars

SpecFormat == InitFormat /\ [][NextTree]_vars

SpecCanon == InitCanon /\ [][NextCanon]_vars

SpecKey == InitKey /\ [][NextKey]_vars

-----
(* Vocabulary of the properties *)

Range(s) == {s[i] : i \in DOMAIN s}

(* position of x in the list s *)
Pos(s, x) == CHOOSE i \in DOMAIN s : s[i] = x

(* the element that holds e, and the nesting level of e (0 for the root) *)
ParentOf(h, e) == CHOOSE p \in DOMAIN h : e \in Range(h[p].children)

RECURSIVE LevelOf(_, _)
LevelOf(h, e) == IF e = 1 THEN 0 ELSE 1 + LevelOf(h, ParentOf(h, e))

IsLastChild(h, e) ==
    e # 1 /\ LET c == h[ParentOf(h, e)].children IN c[Len(c)] = e

RECURSIVE Descendants(_, _)
Descendants(h, e) ==
    Range(h[e].children) \cup UNION {Descendants(h, c) : c \in Range(h[e].children)}

(* sort-eligible as the specification words it: a tag of the sortable set   *)
(* and a name or a GUID that is present and not empty                       *)
HasValue(h, e, key) == key \in DOMAIN h[e].attrib /\ Len(h[e].attrib[key]) > 0

Eligible(h, e) ==
    /\ h[e].tag \in {"PropertyValue", "ToolsOptionsCategory",
                     "ToolsOptionsSubCategory", "Category"}
    /\ (HasValue(h, e, "name") \/ HasValue(h, e, "GUID"))

(* the key the elements are ordered by: name if the attribute is there,     *)
(* else GUID if the attribute is there, else the empty string               *)
KeyOf(h, e) ==
    IF "name" \in DOMAIN h[e].attrib THEN h[e].attrib["name"]
    ELSE IF "GUID" \in DOMAIN h[e].attrib THEN h[e].attrib["GUID"]
    ELSE <<>>

(* the key as section 3 of the specification words it: an attribute that is *)
(* empty counts as absent                                                   *)
KeyOfNonEmpty(h, e) ==
    IF HasValue(h, e, "name") THEN h[e].attrib["name"]
    ELSE IF HasValue(h, e, "GUID") THEN h[e].attrib["GUID"]
    ELSE <<>>

Sorted == pc \in {"sorted", "resorted"}

----------------------------------------------------------------------------
(* C1: idempotence.  Running sort_children_recursively on the result of a   *)
(* first run leaves the child order of every element as the first run left  *)
(* it.                                                                      *)
C1_Idempotent ==
    pc = "resorted" =>
        /\ DOMAIN elem = DOMAIN first
        /\ \A e \in DOMAIN elem : elem[e].children = first[e].children

(* a second run on a tree whose first run moved elements at two levels *)
C1_Witness ==
    /\ pc = "resorted"
    /\ first[1].children # input[1].children
    /\ \E e \in DOMAIN first : e # 1 /\ first[e].children # input[e].children

(* C2: partition.  After sort_children_recursively, under every element     *)
(* every child that is not sort-eligible comes before every sort-eligible   *)
(* child, and the children that are not eligible are in their input order.  *)
C2_Partition ==
    pc # "parsed" =>
        \A e \in DOMAIN elem :
            LET c == elem[e].children
            IN  /\ \A i, j \in DOMAIN c :
                       (Eligible(elem, c[i]) /\ ~Eligible(elem, c[j])) => j < i
                /\ SelectSeq(c, LAMBDA x : ~Eligible(elem, x))
                     = SelectSeq(input[e].children, LAMBDA x : ~Eligible(input, x))

(* an element whose input has an eligible child before two children that   *)
(* are not eligible, one by its tag and one by its missing attributes      *)
C2_Witness ==
    /\ pc = "sorted"
    /\ \E e \in DOMAIN input :
         LET c == input[e].children
         IN  \E i, j, k \in DOMAIN c :
                /\ i < j /\ j < k
                /\ Eligible(input, c[i])
                /\ input[c[j]].tag \in sortable_tags /\ ~Eligible(input, c[j])
                /\ input[c[k]].tag \notin sortable_tags

(* C3: sorted and stable at every depth.  After sort_children_recursively   *)
(* the eligible children of every element, also of an element that is not   *)
(* itself eligible, are in non-decreasing order of their key under ordinal  *)
(* comparison, and eligible siblings with equal keys keep their input order.*)
C3_SortedStable ==
    pc # "parsed" =>
        \A e \in DOMAIN elem :
            LET c == elem[e].children
            IN  \A i, j \in DOMAIN c :
                   (i < j /\ Eligible(elem, c[i]) /\ Eligible(elem, c[j])) =>
                       /\ ~StrLess(KeyOf(elem, c[j]), KeyOf(elem, c[i]))
                       /\ KeyOf(elem, c[i]) = KeyOf(elem, c[j]) =>
                             Pos(input[e].children, c[i]) < Pos(input[e].children, c[j])

(* inside a child that is not eligible: two eligible children with equal    *)
(* keys after one with a greater key                                        *)
C3_Witness ==
    /\ pc = "sorted"
    /\ \E e \in DOMAIN input :
         LET c == input[e].children
         IN  /\ e # 1 /\ ~Eligible(input, e)
             /\ \E i, j, k \in DOMAIN c :
                   /\ i < j /\ j < k
                   /\ Eligible(input, c[i]) /\ Eligible(input, c[j])
                   /\ Eligible(input, c[k])
                   /\ StrLess(KeyOf(input, c[j]), KeyOf(input, c[i]))
                   /\ KeyOf(input, c[j]) = KeyOf(input, c[k])
                   /\ input[c[j]] # input[c[k]]

(* C5: normalisation only moves elements.  The children of every element    *)
(* after sort_children_recursively are a permutation of its children        *)
(* before, and tag, attributes, text, tail and descendants of every element *)
(* are unchanged.                                                           *)
C5_OnlyMoves ==
    Sorted =>
        /\ DOMAIN elem = DOMAIN input
        /\ \A e \in DOMAIN elem :
              /\ Len(elem[e].children) = Len(input[e].children)
              /\ Range(elem[e].children) = Range(input[e].children)
              /\ Cardinality(Range(elem[e].children)) = Len(elem[e].children)
              /\ elem[e].tag = input[e].tag
              /\ elem[e].attrib = input[e].attrib
              /\ elem[e].text = input[e].text
              /\ elem[e].tail = input[e].tail
              /\ Descendants(elem, e) = Descendants(input, e)

(* an element with text, tail and a child of its own was moved *)
C5_Witness ==
    /\ pc = "sorted"
    /\ \E e \in DOMAIN input :
          /\ e # 1
          /\ input[e].text # <<>> /\ input[e].tail # <<>>
          /\ input[e].children # <<>>
          /\ LET p == ParentOf(input, e)
             IN  Pos(input[p].children, e) # Pos(elem[p].children, e)

(* C7: the formatter never overwrites content.  A text (a tail) that holds  *)
(* a character that is not whitespace before format_xml_output is the same  *)
(* after it, for every element, the last child of its parent included.      *)
C7_ContentKept ==
    pc = "formatted" =>
        \A e \in DOMAIN elem :
            /\ (\E i \in DOMAIN first[e].text : ~IsSpace(first[e].text[i]))
                  => elem[e].text = first[e].text
            /\ (\E i \in DOMAIN first[e].tail : ~IsSpace(first[e].tail[i]))
                  => elem[e].tail = first[e].tail

(* a last child whose tail has content, under a parent whose other child's  *)
(* whitespace tail was rewritten, and an element with children and content  *)
(* in its text                                                              *)
C7_Witness ==
    /\ pc = "formatted"
    /\ \E e \in DOMAIN first :
          /\ IsLastChild(first, e) /\ ~Blank(first[e].tail)
          /\ first[e].children # <<>> /\ ~Blank(first[e].text)
          /\ \E d \in Range(first[ParentOf(first, e)].children) :
                d # e /\ elem[d].tail # first[d].tail

(* every text and tail of the tree is empty or whitespace only *)
AllBlank(h) == \A e \in DOMAIN h : Blank(h[e].text) /\ Blank(h[e].tail)

(* C10: indentation of a tree whose texts and tails are all empty or        *)
(* whitespace only.  An element with children gets the text newline +       *)
(* (level+1) tabs; an element that is not the root and not a last child     *)
(* gets the tail newline + (level) tabs; a last child ends with the tail    *)
(* newline + (level of its parent) tabs; a root with children gets the tail *)
(* newline; the text of a childless element and the tail of a childless     *)
(* root are left as they were.                                              *)
C10_Indentation ==
    (pc = "formatted" /\ AllBlank(first)) =>
        \A e \in DOMAIN elem :
            LET level == LevelOf(elem, e)
                leaf == elem[e].children = <<>>
            IN  /\ ~leaf => elem[e].text = NL \o Tabs(level + 1)
                /\ leaf => elem[e].text = first[e].text
                /\ (e # 1 /\ ~IsLastChild(elem, e)) => elem[e].tail = NL \o Tabs(level)
                /\ IsLastChild(elem, e) => elem[e].tail = NL \o Tabs(level - 1)
                /\ (e = 1 /\ ~leaf) => elem[e].tail = NL
                /\ (e = 1 /\ leaf) => elem[e].tail = first[e].tail

(* a last child that has children of its own, at level 2, beside a sibling, *)
(* in a tree that holds whitespace to be replaced                           *)
C10_Witness ==
    /\ pc = "formatted" /\ AllBlank(first)
    /\ \E e \in DOMAIN elem :
          /\ IsLastChild(elem, e) /\ elem[e].children # <<>>
          /\ LevelOf(elem, e) = 2
          /\ first[e].tail # <<>>
          /\ Len(elem[ParentOf(elem, e)].children) > 1

(* C4 as claimed: sort_key_for_element returns name if it is present and   *)
(* not empty, otherwise GUID if it is present and not empty, otherwise the  *)
(* empty string, for every combination of the two attributes.               *)
C4_KeyAsClaimed ==
    pc = "keyed" => sort_key = KeyOfNonEmpty(elem, 1)

(* the one combination where the claim and the code part: name is there and *)
(* empty, GUID is set                                                       *)
NameEmptyGuidSet(h, e) ==
    /\ "name" \in DOMAIN h[e].attrib /\ h[e].attrib["name"] = <<>>
    /\ HasValue(h, e, "GUID")

(* C4 amended: sort_key_for_element returns the value of name if the        *)
(* attribute is present, also when it is empty; otherwise the value of GUID *)
(* if that attribute is present; otherwise the empty string.  This is the   *)
(* claimed key for every combination but name empty with GUID set, where    *)
(* the key is the empty string.                                             *)
C4_Key ==
    pc = "keyed" =>
        /\ sort_key = KeyOf(elem, 1)
        /\ ~NameEmptyGuidSet(elem, 1) => sort_key = KeyOfNonEmpty(elem, 1)
        /\ NameEmptyGuidSet(elem, 1) => sort_key = <<>>

(* the key of an element of a sortable tag with name="" and GUID="A" *)
C4_Witness ==
    /\ pc = "keyed"
    /\ elem[1].tag \in sortable_tags
    /\ NameEmptyGuidSet(elem, 1)
    /\ sort_key = <<>>

(* C6 as claimed: two trees that differ only in the order of the eligible   *)
(* siblings give the same output of sort_children_recursively followed by   *)
(* format_xml_output.                                                       *)
C6_CanonicalAsClaimed ==
    Len(outputs) = 2 => outputs[1] = outputs[2]

(* eligible siblings with equal keys are in the same relative order in the  *)
(* two trees                                                                *)
TiesAgree(g, h) ==
    \A e \in DOMAIN g :
        \A a, b \in Range(g[e].children) :
            (Eligible(g, a) /\ Eligible(g, b) /\ KeyOf(g, a) = KeyOf(g, b)) =>
                (Pos(g[e].children, a) < Pos(g[e].children, b)
                    <=> Pos(h[e].children, a) < Pos(h[e].children, b))

(* C6 amended: two trees that differ only in the order of the eligible      *)
(* siblings, and in which eligible siblings with equal keys are in the same *)
(* relative order, give the same output.                                    *)
C6_Canonical ==
    (Len(outputs) = 2 /\ TiesAgree(other, input)) => outputs[1] = outputs[2]

(* two exports written; in the second an eligible child moved before a      *)
(* sibling that is not eligible and before an eligible one of another key,  *)
(* at two levels                                                            *)
C6_Witness ==
    /\ Len(outputs) = 2 /\ TiesAgree(other, input)
    /\ other[1].children # input[1].children
    /\ \E e \in DOMAIN input :
          /\ e # 1
          /\ other[e].children # input[e].children
    /\ \E e \in DOMAIN input : \E a, b \in Range(input[e].children) :
          /\ ~Eligible(input, a) /\ Eligible(input, b)
          /\ Pos(other[e].children, a) < Pos(other[e].children, b)
          /\ Pos(input[e].children, b) < Pos(input[e].children, a)

(* every check of main on the command line has passed *)
Validated ==
    /\ argv.input_given /\ argv.output_given
    /\ argv.input_file.text = "path" /\ argv.input_file.ext /\ argv.input_file.isfile
    /\ argv.output.text = "path" /\ argv.output.dir # "missing" /\ ~argv.output.ext

(* process_settings_file has been called *)
Invoked == pc = "process" \/ fault # NoFault \/ outputs # <<>>

(* C8: exit status of a run through main.  The process exits with status 0  *)
(* when the output is written, and with status 1 after exactly one line on  *)
(* the error stream otherwise: malformed XML, missing input file, invalid   *)
(* arguments (a missing -o flag among them), any other error; and           *)
(* process_settings_file is called only after every check has passed.       *)
C8_ExitStatus ==
    /\ Invoked => Validated
    /\ pc = "exited" =>
          IF outputs # <<>>
          THEN status = 0 /\ stderr = <<>>
          ELSE status = 1 /\ Len(stderr) = 1

(* the same with the command lines argparse rejects left out: what the code *)
(* does keep of C8                                                          *)
C8_WhenArgumentsParse ==
    /\ Invoked => Validated
    /\ (pc = "exited" /\ argv.input_given /\ argv.output_given) =>
          IF outputs # <<>>
          THEN status = 0 /\ stderr = <<>>
          ELSE status = 1 /\ Len(stderr) = 1

(* C9: error kinds are not conflated.  When process_settings_file fails to  *)
(* open or write the output path, for any cause, the line it prints carries *)
(* the message of the exception and is neither the parse failure line nor   *)
(* the missing input file line; the run ends with status 1, nothing retried.*)
C9_OutputFailureKind ==
    (pc = "exited" /\ fault.call \in {"open", "write"}) =>
        /\ Len(stderr) = 1
        /\ stderr[1].detail = fault.exception
        /\ stderr[1].text \notin {"Error parsing XML file: {e}", "Error: Input file not found"}
        /\ status = 1
        /\ outputs = <<>>

(* the same for every cause but a path that does not exist *)
C9_WhenPathExists ==
    (pc = "exited" /\ fault.call \in {"open", "write"}
        /\ fault.exception # "FileNotFoundError") =>
        /\ stderr = <<Line("Unexpected error: {e}", fault.exception)>>
        /\ status = 1
        /\ outputs = <<>>

====
